---------------------------- MODULE Spec2Model ----------------------------
(***************************************************************************)
(* A model of energym/utils/common.py: the simulation-time helpers         *)
(* (get_delta_seconds, get_current_time_info), the variable-file parser    *)
(* (parse_variables), the weather perturber (create_variable_weather) and  *)
(* the logger factory (Logger.getLogger).                                  *)
(*                                                                         *)
(* The five components share no state.  Each has its own variables, its    *)
(* own action(s) and its own specification (SpecDelta, SpecTime, SpecXml,  *)
(* SpecWeather, SpecLogger); a component's specification leaves the other  *)
(* components' variables unchanged.                                        *)
(*                                                                         *)
(* A call returns a record whose field err is "none" on a normal return    *)
(* and the name of the Python exception otherwise.                         *)
(***************************************************************************)
EXTENDS Integers, Sequences, FiniteSets, TLC

VARIABLES
    delta_call,     \* arguments of the last get_delta_seconds call
    delta_ret,      \* what that call returned or raised
    time_call,      \* arguments of the last get_current_time_info call
    time_epm,       \* the run-period source, before and after the call
    time_ret,       \* what that call returned or raised
    xml_doc,        \* the document of the last parse_variables call
    xml_ret,        \* what that call returned or raised
    wx_call,        \* arguments of the last create_variable_weather call
    wx_noise,       \* the noise array np.random.normal gave that call
    wx_data,        \* the weather object, before and after the call
    wx_files,       \* the files on disk, before and after the call
    wx_effects,     \* the calls made on the weather object, in order
    wx_ret,         \* what that call returned or raised
    registry,       \* logging's process-wide registry: name -> logger
    console,        \* the lines the last logger.log call wrote
    log_call,       \* the last Logger.getLogger call or logger.log call
    log_history     \* per name, the (level, formatter) of the getLogger calls so far

vars == <<delta_call, delta_ret, time_call, time_epm, time_ret, xml_doc, xml_ret,
          wx_call, wx_noise, wx_data, wx_files, wx_effects, wx_ret, registry, console, log_call,
          log_history>>

delta_vars == <<delta_call, delta_ret>>
time_vars == <<time_call, time_epm, time_ret>>
xml_vars == <<xml_doc, xml_ret>>
wx_vars == <<wx_call, wx_noise, wx_data, wx_files, wx_effects, wx_ret>>
log_vars == <<registry, console, log_call, log_history>>

-----------------------------------------------------------------------------
(***************************************************************************)
(* The calendar arithmetic of Python's datetime, which lines 26-28 and     *)
(* 44-52 call.  A datetime is [ord, sec, us]: the proleptic Gregorian      *)
(* ordinal of its date (0001-01-01 is 1), the second of its day and the    *)
(* microsecond of its second.  A timedelta is [days, sec, us], normalised  *)
(* as Python normalises it (0 <= sec < 86400, 0 <= us < 1000000).          *)
(***************************************************************************)
MINYEAR == 1
MAXYEAR == 9999
SecondsPerDay == 86400
SecondsPerHour == 3600
MicrosPerSecond == 1000000

IsLeap(y) == y % 4 = 0 /\ (y % 100 # 0 \/ y % 400 = 0)

DaysInMonth(y, m) ==
    IF m = 2 THEN (IF IsLeap(y) THEN 29 ELSE 28)
    ELSE IF m \in {4, 6, 9, 11} THEN 30 ELSE 31

DaysBeforeYear(y) ==
    (y - 1) * 365 + ((y - 1) \div 4) - ((y - 1) \div 100) + ((y - 1) \div 400)

RECURSIVE DaysBeforeMonth(_, _)
DaysBeforeMonth(y, m) ==
    IF m <= 1 THEN 0 ELSE DaysBeforeMonth(y, m - 1) + DaysInMonth(y, m - 1)

ValidDate(y, m, d) ==
    /\ y \in MINYEAR..MAXYEAR
    /\ m \in 1..12
    /\ d \in 1..DaysInMonth(y, m)

Ymd2Ord(y, m, d) == DaysBeforeYear(y) + DaysBeforeMonth(y, m) + d

MaxOrdinal == Ymd2Ord(MAXYEAR, 12, 31)

\* The year and the day of that year (from 1) of an ordinal, by Python's
\* 400/100/4/1-year cycle arithmetic.
Ord2YearDay(n) ==
    LET n0 == n - 1
        n400 == n0 \div 146097
        r400 == n0 % 146097
        n100 == r400 \div 36524
        r100 == r400 % 36524
        n4 == r100 \div 1461
        r4 == r100 % 1461
        n1 == r4 \div 365
        r1 == r4 % 365
        y == n400 * 400 + n100 * 100 + n4 * 4 + n1 + 1
    IN  IF n1 = 4 \/ n100 = 4
        THEN [year |-> y - 1, yday |-> 366]
        ELSE [year |-> y, yday |-> r1 + 1]

Ord2Ymd(n) ==
    LET yd == Ord2YearDay(n)
        m == CHOOSE k \in 1..12 :
                 /\ DaysBeforeMonth(yd.year, k) < yd.yday
                 /\ yd.yday <= DaysBeforeMonth(yd.year, k) + DaysInMonth(yd.year, k)
    IN  [year |-> yd.year, month |-> m, day |-> yd.yday - DaysBeforeMonth(yd.year, m)]

\* datetime(y, m, d, hh, mm, ss), for a valid date and time of day.
DateTime(y, m, d, hh, mm, ss) ==
    [ord |-> Ymd2Ord(y, m, d), sec |-> hh * SecondsPerHour + mm * 60 + ss, us |-> 0]

\* datetime + timedelta: the sum, normalised; err is "OverflowError" when the
\* date of the sum is not a date of the years MINYEAR..MAXYEAR.
DateTimeAdd(dt, td) ==
    LET us == dt.us + td.us
        sec == dt.sec + td.sec + (us \div MicrosPerSecond)
        ord == dt.ord + td.days + (sec \div SecondsPerDay)
    IN  IF ord \in 1..MaxOrdinal
        THEN [err |-> "none",
              val |-> [ord |-> ord, sec |-> sec % SecondsPerDay, us |-> us % MicrosPerSecond]]
        ELSE [err |-> "OverflowError", val |-> dt]

\* (a - b).total_seconds() of two datetimes with no microseconds.
TotalSeconds(a, b) == (a.ord - b.ord) * SecondsPerDay + (a.sec - b.sec)

-----------------------------------------------------------------------------
(***************************************************************************)
(* get_delta_seconds (lines 11-29).                                        *)
(***************************************************************************)
Years == {1900, 2000, 2020, 2021, MAXYEAR}
Months == {1, 2, 3, 12}
Days == {1, 28, 29, 30, 31}

get_delta_seconds(year, st_mon, st_day, end_mon, end_day) ==
    IF ~ValidDate(year, st_mon, st_day)
    THEN [err |-> "ValueError", val |-> 0]
    ELSE IF ~ValidDate(year, end_mon, end_day)
    THEN [err |-> "ValueError", val |-> 0]
    ELSE LET startTime == DateTime(year, st_mon, st_day, 0, 0, 0)
             endTime == DateTimeAdd(DateTime(year, end_mon, end_day, 23, 0, 0),
                                    [days |-> 0, sec |-> SecondsPerHour, us |-> 0])
         IN  IF endTime.err # "none"
             THEN [err |-> endTime.err, val |-> 0]
             ELSE [err |-> "none", val |-> TotalSeconds(endTime.val, startTime)]

DeltaCalls ==
    [year : Years, st_mon : Months, st_day : Days, end_mon : Months, end_day : Days]
NoDeltaCall == [year |-> 0, st_mon |-> 0, st_day |-> 0, end_mon |-> 0, end_day |-> 0]
DeltaPending == [err |-> "pending", val |-> 0]

CallGetDeltaSeconds ==
    /\ delta_call # NoDeltaCall
    /\ delta_ret = DeltaPending
    /\ delta_ret' = get_delta_seconds(delta_call.year, delta_call.st_mon,
                                      delta_call.st_day, delta_call.end_mon,
                                      delta_call.end_day)
    /\ UNCHANGED <<delta_call, time_vars, xml_vars, wx_vars, log_vars>>

-----------------------------------------------------------------------------
(***************************************************************************)
(* get_current_time_info (lines 32-52).  sec_elapsed is [sec, frac]: whole *)
(* seconds and a fraction of a second in units of 1e-7 s, so that an       *)
(* offset that is no whole number of microseconds can be given.            *)
(***************************************************************************)
FracUnitsPerMicro == 10

\* round(n / FracUnitsPerMicro), ties to the even neighbour, as Python's round.
RoundHalfEven(n) ==
    LET q == n \div FracUnitsPerMicro
        r == n % FracUnitsPerMicro
    IN  IF 2 * r < FracUnitsPerMicro THEN q
        ELSE IF 2 * r > FracUnitsPerMicro THEN q + 1
        ELSE IF q % 2 = 0 THEN q ELSE q + 1

\* A faulty timedelta(seconds=...): the fraction is cut to whole microseconds.
TimeDeltaTruncating(sec_elapsed) ==
    [days |-> sec_elapsed.sec \div SecondsPerDay,
     sec |-> sec_elapsed.sec % SecondsPerDay,
     us |-> sec_elapsed.frac \div FracUnitsPerMicro]

\* timedelta(seconds=sec_elapsed): the offset rounded to the nearest
\* microsecond, normalised.
TimeDelta(sec_elapsed) ==
    LET us == RoundHalfEven(sec_elapsed.frac)
        sec == sec_elapsed.sec + (us \div MicrosPerSecond)
    IN  [days |-> sec \div SecondsPerDay,
         sec |-> sec % SecondsPerDay,
         us |-> us % MicrosPerSecond]

get_current_time_info(epm, sec_elapsed, sim_year) ==
    IF Len(epm.RunPeriod) = 0
    THEN [err |-> "IndexError", val |-> <<0, 0, 0>>]
    ELSE LET month == epm.RunPeriod[1].begin_month
             day == epm.RunPeriod[1].begin_day_of_month
         IN  IF ~ValidDate(sim_year, month, day)
             THEN [err |-> "ValueError", val |-> <<0, 0, 0>>]
             ELSE LET start_date == DateTime(sim_year, month, day, 0, 0, 0)
                      current_date == DateTimeAdd(start_date, TimeDelta(sec_elapsed))
                      ymd == Ord2Ymd(current_date.val.ord)
                  IN  IF current_date.err # "none"
                      THEN [err |-> current_date.err, val |-> <<0, 0, 0>>]
                      ELSE [err |-> "none",
                            val |-> <<ymd.day, ymd.month,
                                      current_date.val.sec \div SecondsPerHour>>]

\* What the call leaves of the run-period source: it only reads it.
epm_after_time_info(epm) == epm

SimYears == {1991, 2020, MAXYEAR}
BeginMonths == {1, 2, 12}
BeginDays == {1, 29, 31}
MaxRunPeriods == 2
RunPeriodEntries == [begin_month : BeginMonths, begin_day_of_month : BeginDays]
RunPeriodLists == UNION {[1..n -> RunPeriodEntries] : n \in 0..MaxRunPeriods}
ElapsedSeconds == {0, 3599, 3600, 3661, 86399, 86400, 31 * 86400, 365 * 86400}
ElapsedFractions == {0, 4, 6, 9999994, 9999996}

TimeCalls ==
    [epm : [RunPeriod : RunPeriodLists],
     sec_elapsed : [sec : ElapsedSeconds, frac : ElapsedFractions],
     sim_year : SimYears]
NoTimeCall == [epm |-> [RunPeriod |-> <<>>], sec_elapsed |-> [sec |-> 0, frac |-> 0],
               sim_year |-> 0]
TimePending == [err |-> "pending", val |-> <<0, 0, 0>>]

CallGetCurrentTimeInfo ==
    /\ time_call # NoTimeCall
    /\ time_ret = TimePending
    /\ time_epm' = epm_after_time_info(time_epm)
    /\ time_ret' = get_current_time_info(time_epm, time_call.sec_elapsed,
                                         time_call.sim_year)
    /\ UNCHANGED <<time_call, delta_vars, xml_vars, wx_vars, log_vars>>

-----------------------------------------------------------------------------
(***************************************************************************)
(* parse_variables (lines 55-73).  A document is [wellformed, root]: root  *)
(* is the sequence of the root element's children, each [tag, source,      *)
(* kids], where source is the element's `source` attribute and kids the    *)
(* `type` attributes of its own children, in order.  NoAttr stands for an  *)
(* attribute the element does not have.                                    *)
(***************************************************************************)
NoAttr == "<absent>"
MaxElements == 3
Sources == {NoAttr, "EnergyPlus", "Other"}
KidLists == {<<>>, <<NoAttr>>, <<"A">>, <<"B">>, <<"A", "B">>, <<NoAttr, "A">>}
Elements ==
    [tag : {"variable"}, source : Sources, kids : KidLists]
    \cup [tag : {"group"}, source : {"EnergyPlus"}, kids : {<<>>, <<"A">>}]
Documents ==
    {[wellformed |-> FALSE, root |-> <<>>]}
    \cup {[wellformed |-> TRUE, root |-> r] :
             r \in UNION {[1..n -> Elements] : n \in 0..MaxElements}}

\* root.findall('variable'): the children of the root with that tag, in order.
FindAllVariable(root) == SelectSeq(root, LAMBDA e : e.tag = "variable")

\* A faulty line 71: the name goes to the front of the list.
PrependVariable(variables, name) == <<name>> \o variables

\* variables.append(name).
AppendVariable(variables, name) == Append(variables, name)

\* A faulty line 70: var.attrib.get('source') raises nothing.
SourceMissingLenient(var) == FALSE

\* var.attrib['source'] raises KeyError for an element with no such attribute.
SourceMissing(var) == var.source = NoAttr

\* The loop of lines 69-71 from element i on, with the list built so far.
RECURSIVE ParseLoop(_, _, _)
ParseLoop(found, i, variables) ==
    IF i > Len(found)
    THEN [err |-> "none", val |-> variables]
    ELSE LET var == found[i]
         IN  IF SourceMissing(var)
             THEN [err |-> "KeyError", val |-> <<>>]
             ELSE IF var.source # "EnergyPlus"
             THEN ParseLoop(found, i + 1, variables)
             ELSE IF Len(var.kids) = 0
             THEN [err |-> "IndexError", val |-> <<>>]
             ELSE IF var.kids[1] = NoAttr
             THEN [err |-> "KeyError", val |-> <<>>]
             ELSE ParseLoop(found, i + 1, AppendVariable(variables, var.kids[1]))

parse_variables(doc) ==
    IF ~doc.wellformed
    THEN [err |-> "ParseError", val |-> <<>>]
    ELSE ParseLoop(FindAllVariable(doc.root), 1, <<>>)

NoDocument == [wellformed |-> FALSE, root |-> <<[tag |-> "none", source |-> NoAttr, kids |-> <<>>]>>]
XmlPending == [err |-> "pending", val |-> <<>>]

CallParseVariables ==
    /\ xml_doc # NoDocument
    /\ xml_ret = XmlPending
    /\ xml_ret' = parse_variables(xml_doc)
    /\ UNCHANGED <<xml_doc, delta_vars, time_vars, wx_vars, log_vars>>

-----------------------------------------------------------------------------
(***************************************************************************)
(* create_variable_weather (lines 76-106).  A weather series is a function *)
(* from column names to columns, a column a function from rows to values.  *)
(* A path is a sequence of tokens, ".epw" and "/" being tokens of their    *)
(* own, so that `split('.epw')` cuts at the occurrences of the ".epw"      *)
(* token.  `columns` is the set of the names in the list.  The noise of a  *)
(* call is the array np.random.normal returned to it, one sample per row   *)
(* and named column; a sample of N(mu, std) is taken to be mu - std or     *)
(* mu + std, and so mu itself when std is 0.                               *)
(***************************************************************************)
NumRows == 2
Rows == 1..NumRows
SeriesColumns == {"drybulb", "relhum"}
ColumnNames == SeriesColumns \cup {"windspd"}
WeatherSeries ==
    {[c \in SeriesColumns |-> [r \in Rows |-> base[c] + r]] :
        base \in [SeriesColumns -> {0, 10}]}
EpwPaths ==
    { <<"w", ".epw">>,
      <<"dir", "/", "w", ".epw">>,
      <<"dir", ".epw", "/", "w", ".epw">>,
      <<"dir", "/", "w", ".epw", ".epw">>,
      <<"dir", "/", "w", ".epw", "x">>,
      <<"dir", "/", "w">> }
NoVariation == [none |-> TRUE, mu |-> 0, std |-> 0]
Variations ==
    {NoVariation} \cup [none : {FALSE}, mu : {0, 1}, std : {-1, 0, 1}]

\* The values np.random.normal(mu, std, shape) may hold in a cell.
NoiseSamples(variation) ==
    IF variation.none \/ variation.std < 0 THEN {0}
    ELSE {variation.mu - variation.std, variation.mu + variation.std}

\* str(n) of the numbers a variation holds.
Str(n) ==
    CASE n = -1 -> "-1" [] n = 0 -> "0" [] n = 1 -> "1" [] n = 2 -> "2"
      [] OTHER -> "?"

\* original_epw_file.split('.epw')[0]: the path up to the first ".epw" in
\* it, the whole path when there is none.
RECURSIVE SplitEpwHead(_)
SplitEpwHead(path) ==
    IF path = <<>> \/ Head(path) = ".epw" THEN <<>>
    ELSE <<Head(path)>> \o SplitEpwHead(Tail(path))

\* Lines 103-104.
RandomFilename(original_epw_file, mu, std) ==
    SplitEpwHead(original_epw_file) \o <<"_Random_", Str(mu), "_", Str(std), ".epw">>

\* A faulty line 99: the noise goes to every column of the series.
AddNoiseEverywhere(df, columns, noise) ==
    [c \in DOMAIN df |->
        [r \in Rows |-> df[c][r] + (IF c \in columns THEN noise[c][r] ELSE 1)]]

\* df[columns] += noise (line 99), for columns that are all in df.
AddNoise(df, columns, noise) ==
    [c \in DOMAIN df |->
        IF c \in columns THEN [r \in Rows |-> df[c][r] + noise[c][r]] ELSE df[c]]

\* A faulty line 99: a column that is not in the series raises nothing.
ColumnsPresentLenient(df, columns) == TRUE

\* df[columns] raises KeyError unless every named column is in df.
ColumnsPresent(df, columns) == columns \subseteq DOMAIN df

\* A faulty line 89: the test is never true, the call always perturbs.
IsNoneNever(variation) == FALSE

\* variation is None (line 89).
IsNone(variation) == variation.none

\* The whole call: what it returns (ret), what it leaves of the weather
\* object (data) and of the disk (files), and the calls it made on the
\* weather object (effects).  write_ok says whether to_epw can write.
create_variable_weather(weather_data, original_epw_file, columns, variation, noise, write_ok) ==
    LET files == {original_epw_file}
        raise(e, data, effects) ==
            [ret |-> [kind |-> e, val |-> <<>>], data |-> data, files |-> files,
             effects |-> effects]
    IN  IF IsNone(variation)
        THEN [ret |-> [kind |-> "None", val |-> <<>>], data |-> weather_data,
              files |-> files, effects |-> <<>>]
        ELSE LET df == weather_data.series
                 read == <<"get_weather_series">>
             IN  IF variation.std < 0
                 THEN raise("ValueError", weather_data, read)
                 ELSE IF ~ColumnsPresent(df, columns)
                 THEN raise("KeyError", weather_data, read)
                 ELSE LET data == [weather_data EXCEPT
                                      !.series = AddNoise(df, columns, noise)]
                          stored == Append(read, "set_weather_series")
                          filename == RandomFilename(original_epw_file,
                                                     variation.mu, variation.std)
                          written == Append(stored, "to_epw")
                      IN  IF ~write_ok
                          THEN raise("IOError", data, written)
                          ELSE [ret |-> [kind |-> "str", val |-> filename],
                                data |-> data,
                                files |-> files \cup {filename},
                                effects |-> written]

WxCalls ==
    [weather_data : [series : WeatherSeries], original_epw_file : EpwPaths,
     columns : SUBSET ColumnNames, variation : Variations, write_ok : BOOLEAN]
NoWxCall == [weather_data |-> [series |-> [c \in SeriesColumns |-> [r \in Rows |-> 0]]],
             original_epw_file |-> <<>>, columns |-> {}, variation |-> NoVariation,
             write_ok |-> TRUE]
NoNoise == [c \in {} |-> [r \in Rows |-> 0]]
WxPending == [kind |-> "pending", val |-> <<>>]

CallCreateVariableWeather ==
    /\ wx_call # NoWxCall
    /\ wx_ret = WxPending
    /\ \E noise \in [wx_call.columns -> [Rows -> NoiseSamples(wx_call.variation)]] :
          LET out == create_variable_weather(wx_data, wx_call.original_epw_file,
                                             wx_call.columns, wx_call.variation,
                                             noise, wx_call.write_ok)
          IN  /\ wx_noise' = noise
              /\ wx_data' = out.data
              /\ wx_files' = out.files
              /\ wx_effects' = out.effects
              /\ wx_ret' = out.ret
    /\ UNCHANGED <<wx_call, delta_vars, time_vars, xml_vars, log_vars>>

-----------------------------------------------------------------------------
(***************************************************************************)
(* Logger.getLogger (lines 109-117) and the logging registry it acts on.   *)
(* A logger is [handlers, level, propagate]: handlers is the sequence of   *)
(* its console handlers, each given by the format string of its formatter. *)
(* A name the registry has not seen yet stands for the logger that         *)
(* logging.getLogger(name) creates on first use: no handlers, level        *)
(* NOTSET, propagate true.  Names have no dots: the parent of every        *)
(* logger is the root logger, which no call here configures.               *)
(***************************************************************************)
NOTSET == 0
WARNING == 30
MaxCalls == 3
LoggerNames == {"env", "agent"}
LogLevels == {NOTSET, 20, 40}
RecordLevels == {10, 30}
Formats == {"%(message)s", "%(name)s: %(message)s"}
NewLogger == [handlers |-> <<>>, level |-> NOTSET, propagate |-> TRUE]
LastResortFormat == "%(message)s"

\* A faulty line 114: a handler is added only to a logger that has none.
AddHandlerOnce(handlers, formatter) ==
    IF handlers = <<>> THEN <<formatter>> ELSE handlers

\* logger.addHandler(consoleHandler), the handler being a new object.
AddHandler(handlers, formatter) == Append(handlers, formatter)

\* A faulty line 115: the level is set only on a logger that has none.
SetLevelOnce(current, level) == IF current = NOTSET THEN level ELSE current

\* logger.setLevel(level).
SetLevel(current, level) == level

\* Lines 111-116 on the registry.
getLogger(reg, name, level, formatter) ==
    [reg EXCEPT ![name] = [handlers |-> AddHandler(@.handlers, formatter),
                           level |-> SetLevel(@.level, level),
                           propagate |-> FALSE]]

\* logger.getEffectiveLevel(): the logger's level, the root's when NOTSET.
EffectiveLevel(logger) == IF logger.level # NOTSET THEN logger.level ELSE WARNING

\* The lines logger.log(level, msg) writes: one per handler of the logger;
\* a logger with none that propagates reaches the root, which has none, and
\* logging's last-resort handler writes records of WARNING and above.
Emit(logger, level) ==
    IF level < EffectiveLevel(logger) THEN <<>>
    ELSE IF logger.handlers # <<>>
    THEN [i \in 1..Len(logger.handlers) |-> [format |-> logger.handlers[i], level |-> level]]
    ELSE IF logger.propagate /\ level >= WARNING
    THEN <<[format |-> LastResortFormat, level |-> level]>>
    ELSE <<>>

\* The number of getLogger calls made so far, over all names.
TotalCalls(history) ==
    LET RECURSIVE Sum(_)
        Sum(S) == IF S = {} THEN 0
                  ELSE LET n == CHOOSE x \in S : TRUE
                       IN  Len(history[n]) + Sum(S \ {n})
    IN  Sum(DOMAIN history)

NoLogCall == [op |-> "none", name |-> "", level |-> 0, formatter |-> ""]

CallGetLogger ==
    /\ TotalCalls(log_history) < MaxCalls
    /\ \E name \in LoggerNames, level \in LogLevels, formatter \in Formats :
          /\ registry' = getLogger(registry, name, level, formatter)
          /\ log_call' = [op |-> "getLogger", name |-> name, level |-> level,
                          formatter |-> formatter]
          /\ log_history' = [log_history EXCEPT
                                ![name] = Append(@, [level |-> level,
                                                     formatter |-> formatter])]
    /\ UNCHANGED <<console, delta_vars, time_vars, xml_vars, wx_vars>>

CallLog ==
    /\ \E name \in LoggerNames, level \in RecordLevels :
          /\ console' = Emit(registry[name], level)
          /\ log_call' = [op |-> "log", name |-> name, level |-> level,
                          formatter |-> ""]
    /\ UNCHANGED <<registry, log_history, delta_vars, time_vars, xml_vars, wx_vars>>

-----------------------------------------------------------------------------
DeltaIdle == delta_call = NoDeltaCall /\ delta_ret = DeltaPending
TimeIdle == time_call = NoTimeCall /\ time_epm = NoTimeCall.epm /\ time_ret = TimePending
XmlIdle == xml_doc = NoDocument /\ xml_ret = XmlPending
WxIdle ==
    /\ wx_call = NoWxCall
    /\ wx_noise = NoNoise
    /\ wx_data = NoWxCall.weather_data
    /\ wx_files = {}
    /\ wx_effects = <<>>
    /\ wx_ret = WxPending
LogIdle ==
    /\ registry = [n \in LoggerNames |-> NewLogger]
    /\ console = <<>>
    /\ log_call = NoLogCall
    /\ log_history = [n \in LoggerNames |-> <<>>]

\* A call of get_delta_seconds is about to be made, with any arguments.
InitDelta ==
    /\ delta_call \in DeltaCalls
    /\ delta_ret = DeltaPending
    /\ TimeIdle /\ XmlIdle /\ WxIdle /\ LogIdle

\* A call of get_current_time_info is about to be made; time_epm is the
\* run-period source it is given.
InitTime ==
    /\ time_call \in TimeCalls
    /\ time_epm = time_call.epm
    /\ time_ret = TimePending
    /\ DeltaIdle /\ XmlIdle /\ WxIdle /\ LogIdle

\* A call of parse_variables is about to be made on any document.
InitXml ==
    /\ xml_doc \in Documents
    /\ xml_ret = XmlPending
    /\ DeltaIdle /\ TimeIdle /\ WxIdle /\ LogIdle

\* A call of create_variable_weather is about to be made: the weather
\* object holds the series read from the original file, which is on disk.
InitWeather ==
    /\ wx_call \in WxCalls
    /\ wx_noise = NoNoise
    /\ wx_data = wx_call.weather_data
    /\ wx_files = {wx_call.original_epw_file}
    /\ wx_effects = <<>>
    /\ wx_ret = WxPending
    /\ DeltaIdle /\ TimeIdle /\ XmlIdle /\ LogIdle

\* The process has just started: the registry holds no configured logger.
InitLogger == LogIdle /\ DeltaIdle /\ TimeIdle /\ XmlIdle /\ WxIdle

NextDelta == CallGetDeltaSeconds
NextTime == CallGetCurrentTimeInfo
NextXml == CallParseVariables
NextWeather == CallCreateVariableWeather
NextLogger == CallGetLogger \/ CallLog

SpecDelta == InitDelta /\ [][NextDelta]_vars
SpecTime == InitTime /\ [][NextTime]_vars
SpecXml == InitXml /\ [][NextXml]_vars
SpecWeather == InitWeather /\ [][NextWeather]_vars
SpecLogger == InitLogger /\ [][NextLogger]_vars

-----------------------------------------------------------------------------
(***************************************************************************)
(* Properties of get_delta_seconds.                                        *)
(***************************************************************************)
DateLE(m1, d1, m2, d2) == m1 < m2 \/ (m1 = m2 /\ d1 <= d2)

\* The calendar days of the year from (m1, d1) to (m2, d2), both included.
InclusiveDays(year, m1, d1, m2, d2) ==
    Cardinality({md \in (1..12) \X (1..31) :
                    /\ md[2] <= DaysInMonth(year, md[1])
                    /\ DateLE(m1, d1, md[1], md[2])
                    /\ DateLE(md[1], md[2], m2, d2)})

DeltaInDomain ==
    /\ delta_ret # DeltaPending
    /\ ValidDate(delta_call.year, delta_call.st_mon, delta_call.st_day)
    /\ ValidDate(delta_call.year, delta_call.end_mon, delta_call.end_day)
    /\ DateLE(delta_call.st_mon, delta_call.st_day,
              delta_call.end_mon, delta_call.end_day)

DeltaExpected ==
    [err |-> "none",
     val |-> SecondsPerDay * InclusiveDays(delta_call.year,
                                           delta_call.st_mon, delta_call.st_day,
                                           delta_call.end_mon, delta_call.end_day)]

\* C1: for every valid (year, m1, d1, m2, d2) with (m2, d2) >= (m1, d1),
\* get_delta_seconds returns 86400 times the number of calendar days from
\* (m1, d1) to (m2, d2) inclusive, and an end day of 31 December does not
\* fail.
C1_DeltaIsInclusiveDays == DeltaInDomain => delta_ret = DeltaExpected

\* C1, the part the code keeps: the same, for every call but the one whose
\* end day is 31 December of MAXYEAR, which raises OverflowError.
C1_DeltaIsInclusiveDaysBelowMax ==
    DeltaInDomain =>
        IF delta_call.year = MAXYEAR /\ delta_call.end_mon = 12 /\ delta_call.end_day = 31
        THEN delta_ret.err = "OverflowError"
        ELSE delta_ret = DeltaExpected

-----------------------------------------------------------------------------
(***************************************************************************)
(* Properties of get_current_time_info.                                    *)
(***************************************************************************)
TimeInDomain ==
    /\ time_ret # TimePending
    /\ Len(time_call.epm.RunPeriod) >= 1
    /\ ValidDate(time_call.sim_year, time_call.epm.RunPeriod[1].begin_month,
                 time_call.epm.RunPeriod[1].begin_day_of_month)

\* Day d of month m is the date `days` days after the begin date of the call.
IsDateAfterBegin(d, m, days) ==
    \E y \in {time_call.sim_year, time_call.sim_year + 1} :
        /\ m \in 1..12
        /\ d \in 1..DaysInMonth(y, m)
        /\ Ymd2Ord(y, m, d) =
               Ymd2Ord(time_call.sim_year, time_call.epm.RunPeriod[1].begin_month,
                       time_call.epm.RunPeriod[1].begin_day_of_month) + days

\* The call returned the day, month and truncated hour of the instant
\* `seconds` whole seconds after the begin date at 00:00:00.
TimeInfoIsOf(seconds) ==
    /\ time_ret.err = "none"
    /\ IsDateAfterBegin(time_ret.val[1], time_ret.val[2], seconds \div SecondsPerDay)
    /\ time_ret.val[3] = (seconds % SecondsPerDay) \div SecondsPerHour

\* C2: for every run period with a valid begin date, every sim_year and
\* every offset >= 0, get_current_time_info returns the day, month and
\* hour of begin date 00:00:00 plus the offset, the hour being
\* floor((offset mod 86400) / 3600), and leaves the run-period source
\* unchanged.
C2_TimeInfoOfExactInstant ==
    TimeInDomain =>
        /\ TimeInfoIsOf(time_call.sec_elapsed.sec)
        /\ time_epm = time_call.epm

\* The offset is within half a microsecond of the next whole second.
RoundsToNextSecond(frac) ==
    2 * frac >= 2 * FracUnitsPerMicro * MicrosPerSecond - FracUnitsPerMicro

RoundedSeconds ==
    time_call.sec_elapsed.sec
        + (IF RoundsToNextSecond(time_call.sec_elapsed.frac) THEN 1 ELSE 0)

\* The instant the call computes is no later than the last day of MAXYEAR.
TimeInRange ==
    Ymd2Ord(time_call.sim_year, time_call.epm.RunPeriod[1].begin_month,
            time_call.epm.RunPeriod[1].begin_day_of_month)
        + (RoundedSeconds \div SecondsPerDay) <= Ymd2Ord(MAXYEAR, 12, 31)

\* C2, as amended: the instant is the begin date plus the offset rounded
\* to the nearest microsecond, the call raises OverflowError when that
\* instant is after the last day of year 9999, and the run-period source
\* is left unchanged either way.
C2_TimeInfoOfRoundedInstant ==
    TimeInDomain =>
        /\ IF TimeInRange THEN TimeInfoIsOf(RoundedSeconds)
           ELSE time_ret.err = "OverflowError"
        /\ time_epm = time_call.epm

\* An offset just under one hour that rounds up to the hour.
C2_Witness ==
    /\ TimeInDomain
    /\ time_call.sec_elapsed = [sec |-> 3599, frac |-> 9999996]
    /\ time_call.sim_year = 1991
    /\ time_ret = [err |-> "none", val |-> <<1, 1, 1>>]

-----------------------------------------------------------------------------
(***************************************************************************)
(* Properties of parse_variables.                                          *)
(***************************************************************************)
IsVariable(e) == e.tag = "variable"
IsMatched(e) == IsVariable(e) /\ e.source = "EnergyPlus"
LacksType(e) == e.kids = <<>> \/ e.kids[1] = NoAttr
RootElements == {xml_doc.root[i] : i \in 1..Len(xml_doc.root)}

\* The `type` of the first child of each matched element, in document order.
MatchedTypes ==
    LET matched == SelectSeq(xml_doc.root, IsMatched)
    IN  [i \in 1..Len(matched) |-> matched[i].kids[1]]

\* C6: parse_variables returns, in document order and without sorting or
\* deduplication, the `type` of the first child of each top-level
\* `variable` element whose source is "EnergyPlus"; a variable of another
\* source is skipped and contributes nothing.
C6_ParseReturnsMatchedTypes ==
    xml_ret # XmlPending =>
        /\ xml_ret.err = "none" => xml_ret.val = MatchedTypes
        /\ ( /\ xml_doc.wellformed
             /\ \A e \in RootElements :
                    IsVariable(e) => e.source # NoAttr /\ (IsMatched(e) => ~LacksType(e)) )
           => xml_ret.err = "none"

\* Three elements, the middle one of another source, the other two matched
\* and returned in document order, which is not the sorted order.
C6_Witness ==
    /\ xml_ret = [err |-> "none", val |-> <<"B", "A">>]
    /\ Len(xml_doc.root) = 3
    /\ xml_doc.root[2].source = "Other"
    /\ xml_doc.root[2].kids = <<"A">>

\* C10: parse_variables fails, returning no partial list, exactly when the
\* document is not well-formed or a matched `variable` element has no
\* child or a first child without `type`; an element that is not matched
\* never causes a failure.
C10_FailsOnlyOnMatched ==
    xml_ret # XmlPending =>
        /\ xml_ret.err # "none" <=>
               \/ ~xml_doc.wellformed
               \/ \E e \in RootElements : IsMatched(e) /\ LacksType(e)
        /\ xml_ret.err # "none" => xml_ret.val = <<>>

\* C10, as amended: it fails exactly when the document is not well-formed,
\* or a top-level `variable` element has no `source` attribute, or a
\* matched one has no child or a first child without `type`; a `variable`
\* element with a source other than "EnergyPlus" never causes a failure.
C10_FailsOnMissingSourceToo ==
    xml_ret # XmlPending =>
        /\ xml_ret.err # "none" <=>
               \/ ~xml_doc.wellformed
               \/ \E e \in RootElements :
                      IsVariable(e) /\ (e.source = NoAttr \/ (IsMatched(e) /\ LacksType(e)))
        /\ xml_ret.err # "none" => xml_ret.val = <<>>

\* A failure whose only cause is a `variable` element without `source`,
\* after a matched element that parsed.
C10_Witness ==
    /\ xml_ret.err = "KeyError"
    /\ xml_doc.wellformed
    /\ Len(xml_doc.root) = 2
    /\ xml_doc.root[1] = [tag |-> "variable", source |-> "EnergyPlus", kids |-> <<"A">>]
    /\ xml_doc.root[2] = [tag |-> "variable", source |-> NoAttr, kids |-> <<"B">>]

-----------------------------------------------------------------------------
(***************************************************************************)
(* Properties of create_variable_weather.                                  *)
(***************************************************************************)
Range(seq) == {seq[i] : i \in 1..Len(seq)}
IsPrefix(a, b) == Len(a) <= Len(b) /\ \A i \in 1..Len(a) : a[i] = b[i]
WxReturned == wx_ret # WxPending
WxIn == wx_call.weather_data.series
WxOut == wx_data.series
WxOriginal == wx_call.original_epw_file
WxSuffix ==
    <<"_Random_", Str(wx_call.variation.mu), "_", Str(wx_call.variation.std), ".epw">>

EndsWithEpw(path) == path # <<>> /\ path[Len(path)] = ".epw"
StripEpwSuffix(path) == IF EndsWithEpw(path) THEN SubSeq(path, 1, Len(path) - 1) ELSE path
\* The number of tokens of the directory part of a path, its last "/" included.
DirLen(path) ==
    IF "/" \in Range(path)
    THEN CHOOSE i \in 1..Len(path) :
            path[i] = "/" /\ \A j \in (i + 1)..Len(path) : path[j] # "/"
    ELSE 0
Dirname(path) == SubSeq(path, 1, DirLen(path))
Basename(path) == SubSeq(path, DirLen(path) + 1, Len(path))

\* C3: with a variation, the path written and returned is the original
\* path with its `.epw` suffix stripped and `_Random_<mean>_<std>.epw`
\* appended, so that for an original path ending in `.epw` the new file
\* lies in the directory of the original and keeps its stem.
C3_NewPathBesideOriginal ==
    wx_ret.kind = "str" =>
        /\ wx_ret.val = StripEpwSuffix(WxOriginal) \o WxSuffix
        /\ wx_ret.val \in wx_files
        /\ EndsWithEpw(WxOriginal) =>
               /\ Dirname(wx_ret.val) = Dirname(WxOriginal)
               /\ Basename(wx_ret.val) = StripEpwSuffix(Basename(WxOriginal)) \o WxSuffix

\* C3, the part the code keeps: the same, for an original path whose only
\* ".epw" is its suffix.
C3_NewPathBesideOriginalOneEpw ==
    ( /\ wx_ret.kind = "str"
      /\ Cardinality({i \in 1..Len(WxOriginal) : WxOriginal[i] = ".epw"}) = 1
      /\ EndsWithEpw(WxOriginal) )
    => /\ wx_ret.val = StripEpwSuffix(WxOriginal) \o WxSuffix
       /\ wx_ret.val \in wx_files
       /\ Dirname(wx_ret.val) = Dirname(WxOriginal)
       /\ Basename(wx_ret.val) = StripEpwSuffix(Basename(WxOriginal)) \o WxSuffix

\* C4: with variation = None the call returns None and has no effect: the
\* weather object is neither read nor replaced, no file is written and
\* the original file is untouched, whatever the weather object, the path
\* and the columns.
C4_NoneIsNoOp ==
    (WxReturned /\ wx_call.variation.none) =>
        /\ wx_ret = [kind |-> "None", val |-> <<>>]
        /\ wx_effects = <<>>
        /\ wx_data = wx_call.weather_data
        /\ wx_files = {WxOriginal}

\* A call without variation that names a column the series does not have.
C4_Witness ==
    /\ WxReturned
    /\ wx_call.variation.none
    /\ wx_call.columns = {"drybulb", "windspd"}
    /\ wx_ret.kind = "None"

\* C5: the series stored back has the rows and columns of the one read,
\* a column not named in `columns` is identical to its input, every cell
\* of a named column is its input plus one noise sample, and with
\* variation (0, 0) the named columns are unchanged too.
C5_OnlyNamedColumnsPerturbed ==
    "set_weather_series" \in Range(wx_effects) =>
        /\ DOMAIN WxOut = DOMAIN WxIn
        /\ \A c \in DOMAIN WxIn :
               /\ DOMAIN WxOut[c] = DOMAIN WxIn[c]
               /\ c \notin wx_call.columns => WxOut[c] = WxIn[c]
               /\ c \in wx_call.columns =>
                      \A r \in DOMAIN WxIn[c] :
                         /\ WxOut[c][r] = WxIn[c][r] + wx_noise[c][r]
                         /\ wx_noise[c][r] \in NoiseSamples(wx_call.variation)
        /\ (wx_call.variation.mu = 0 /\ wx_call.variation.std = 0) => WxOut = WxIn

\* One named column perturbed by two different samples, the other intact.
C5_Witness ==
    /\ wx_ret.kind = "str"
    /\ wx_call.columns = {"drybulb"}
    /\ wx_call.variation = [none |-> FALSE, mu |-> 0, std |-> 1]
    /\ WxOut["drybulb"][1] = WxIn["drybulb"][1] + 1
    /\ WxOut["drybulb"][2] = WxIn["drybulb"][2] - 1
    /\ WxOut["relhum"] = WxIn["relhum"]

WxAllEffects == <<"get_weather_series", "set_weather_series", "to_epw">>

\* C9: the effects are, in this order and each at most once, the read of
\* the series, the noise, set_weather_series and to_epw; a file is written
\* only after the series was stored; and when a named column is absent the
\* call fails before set_weather_series and before any write, so that no
\* file is created and the stored series is not replaced.
C9_WriteAfterComputation ==
    WxReturned =>
        /\ IsPrefix(wx_effects, WxAllEffects)
        /\ wx_files # {WxOriginal} => wx_effects = WxAllEffects
        /\ wx_data # wx_call.weather_data => "set_weather_series" \in Range(wx_effects)
        /\ (~wx_call.variation.none /\ ~(wx_call.columns \subseteq DOMAIN WxIn)) =>
               /\ wx_ret.kind \notin {"None", "str"}
               /\ wx_effects = <<"get_weather_series">>
               /\ wx_files = {WxOriginal}
               /\ wx_data = wx_call.weather_data

\* A call that names an absent column, with noise that would have changed
\* the series.
C9_Witness ==
    /\ wx_ret.kind = "KeyError"
    /\ wx_call.columns = {"drybulb", "windspd"}
    /\ wx_call.variation = [none |-> FALSE, mu |-> 1, std |-> 0]
    /\ wx_call.write_ok

-----------------------------------------------------------------------------
(***************************************************************************)
(* Properties of Logger.getLogger.                                         *)
(***************************************************************************)
Last(seq) == seq[Len(seq)]
Configured(name) == log_history[name] # <<>>
Requested(name) == Last(log_history[name]).level

\* A record of this level passes the level filter of the logger: the level
\* requested last, the root's WARNING when that level is NOTSET.
PassesFilter(name, level) ==
    IF Requested(name) = NOTSET THEN level >= WARNING ELSE level >= Requested(name)

\* C7: each getLogger call attaches one more console handler to the
\* registry entry of its name and none is ever removed: after n calls
\* with a name the entry has n handlers, each with the format string of
\* the call that added it, a record that passes the level filter is
\* written n times, and calls with other names leave the entry unchanged.
C7_OneHandlerPerCall ==
    /\ \A name \in LoggerNames :
           /\ Len(registry[name].handlers) = Len(log_history[name])
           /\ \A i \in 1..Len(log_history[name]) :
                  registry[name].handlers[i] = log_history[name][i].formatter
    /\ (log_call.op = "log" /\ Configured(log_call.name)
           /\ PassesFilter(log_call.name, log_call.level)) =>
           /\ Len(console) = Len(log_history[log_call.name])
           /\ \A i \in 1..Len(console) :
                  console[i] = [format |-> log_history[log_call.name][i].formatter,
                                level |-> log_call.level]

\* Two calls with one name and different format strings, none with the
\* other name, and a record written twice.
C7_Witness ==
    /\ Len(log_history["env"]) = 2
    /\ log_history["env"][1].formatter # log_history["env"][2].formatter
    /\ log_history["agent"] = <<>>
    /\ log_call.op = "log" /\ log_call.name = "env"
    /\ Len(console) = 2
    /\ console[1].format # console[2].format

\* C8: after any sequence of getLogger calls, the level of each named
\* logger is the level of the most recent call for its name, records
\* below that level are filtered out, and the logger does not propagate.
C8_LastLevelWins ==
    /\ \A name \in LoggerNames :
           Configured(name) =>
              /\ registry[name].level = Requested(name)
              /\ registry[name].propagate = FALSE
    /\ (log_call.op = "log" /\ Configured(log_call.name)
           /\ log_call.level < Requested(log_call.name)) => console = <<>>

\* Two calls with one name, the second raising the level above a record
\* the first would have let through, and that record filtered out.
C8_Witness ==
    /\ Len(log_history["env"]) = 2
    /\ log_history["env"][1].level = 20
    /\ log_history["env"][2].level = 40
    /\ log_call = [op |-> "log", name |-> "env", level |-> 30, formatter |-> ""]
    /\ console = <<>>
    /\ registry["env"].level = 40

=============================================================================
